---- MODULE Spec2Model ----
(***************************************************************************)
(* A model of the filesystem source (sources/standard/filesystem) and of   *)
(* the transformers of sources/standard_pipeline.py.                       *)
(*                                                                         *)
(* Text is a sequence of one-character strings, so that str.replace,       *)
(* str.lstrip, posixpath.join, urlparse and the glob are computed, not     *)
(* assumed.  A Python value that may be None is a tagged record.           *)
(***************************************************************************)
EXTENDS Integers, Sequences, FiniteSets, TLC

VARIABLES
    args,          \* the arguments of filesystem_resource
    fs,            \* the entries the filesystem client holds
    pc,            \* position of the filesystem_resource generator
    pending,       \* glob_result entries get_files has not reached yet
    files_chunk,   \* filesystem_resource's files_chunk
    yielded,       \* the batches filesystem_resource has yielded
    handle,        \* a FileSystemDict a consumer holds
    result,        \* outcome of the consumer's last open() / read_bytes()
    csv_items,     \* extract_met_csv: the files of the input batch (rows)
    csv_chunksize, \* extract_met_csv: chunksize
    last_value,    \* incremental.last_value, owned by the pipeline
    start_value,   \* history: incremental.last_value when the run started
    csv_pos,       \* extract_met_csv: [file, row] position of the reader
    csv_out,       \* extract_met_csv: the record batches yielded so far
    committed,     \* number of yielded record batches the pipeline committed
    jl_items,      \* read_jsonl: the files of the input batch (lines)
    jl_chunksize,  \* read_jsonl: chunksize
    jl_pc,         \* read_jsonl: position of the generator
    jl_file,       \* read_jsonl: index of the file being read
    jl_line,       \* read_jsonl: lines of the current file already read
    lines_chunk,   \* read_jsonl: lines_chunk
    jl_out         \* read_jsonl: the record batches yielded so far

fsVars == <<args, fs, pc, pending, files_chunk, yielded>>
handleVars == <<handle, result>>
csvVars == <<csv_items, csv_chunksize, last_value, start_value, csv_pos, csv_out, committed>>
jsonlVars == <<jl_items, jl_chunksize, jl_pc, jl_file, jl_line, lines_chunk, jl_out>>
vars == <<fsVars, handleVars, csvVars, jsonlVars>>

----------------------------------------------------------------------------
(* Bounds of the model.                                                    *)

\* chunk sizes 1..MaxChunk of filesystem_resource
MaxChunk == 7
\* total rows of the CSV files of one input batch
MaxRows == 3
\* chunk sizes 1..MaxCsvChunk of extract_met_csv
MaxCsvChunk == 3
\* lines per JSONL file
MaxLines == 25
\* chunk sizes 1..MaxJsonChunk of read_jsonl
MaxJsonChunk == 10

----------------------------------------------------------------------------
(* Python values.                                                          *)

None == [tag |-> "none"]
Bytes(b) == [tag |-> "bytes", data |-> b]
Creds == [tag |-> "creds"]

\* Python truthiness of an Optional value: None is falsy
Falsy(v) == v.tag = "none"

Min(a, b) == IF a <= b THEN a ELSE b

Drop(s, n) == SubSeq(s, n + 1, Len(s))
Take(s, n) == SubSeq(s, 1, Min(n, Len(s)))

StartsWith(s, p) == Len(p) <= Len(s) /\ SubSeq(s, 1, Len(p)) = p

\* str.lstrip(chars) for a single character
RECURSIVE LStrip(_, _)
LStrip(s, c) ==
    IF s # <<>> /\ Head(s) = c THEN LStrip(Tail(s), c) ELSE s

\* str.replace(old, new): every non-overlapping occurrence, left to right
RECURSIVE Replace(_, _, _)
Replace(s, old, new) ==
    IF old = <<>> \/ s = <<>> THEN s
    ELSE IF StartsWith(s, old) THEN new \o Replace(Drop(s, Len(old)), old, new)
    ELSE <<Head(s)>> \o Replace(Tail(s), old, new)

\* posixpath.join(a, b)
PosixJoin(a, b) ==
    IF b # <<>> /\ Head(b) = "/" THEN b
    ELSE IF a = <<>> \/ a[Len(a)] = "/" THEN a \o b
    ELSE a \o <<"/">> \o b

\* first index at which p occurs in s, 0 when it does not
RECURSIVE Find(_, _, _)
Find(s, p, i) ==
    IF i + Len(p) - 1 > Len(s) THEN 0
    ELSE IF SubSeq(s, i, i + Len(p) - 1) = p THEN i
    ELSE Find(s, p, i + 1)

\* urllib.parse.urlparse(url): scheme, netloc and path
UrlParse(url) ==
    LET i == Find(url, <<":", "/", "/">>, 1) IN
    IF i = 0 THEN [scheme |-> <<>>, netloc |-> <<>>, path |-> url]
    ELSE LET rest == Drop(url, i + 2)
             j == Find(rest, <<"/">>, 1)
         IN [scheme |-> Take(url, i - 1),
             netloc |-> IF j = 0 THEN rest ELSE Take(rest, j - 1),
             path |-> IF j = 0 THEN <<>> ELSE Drop(rest, j - 1)]

----------------------------------------------------------------------------
(* The filesystem client (fsspec).                                         *)

\* the bucket urls the resource is run against: "s3://d" and "file:///d"
BucketUrls ==
    { <<"s", "3", ":", "/", "/", "d">>,
      <<"f", "i", "l", "e", ":", "/", "/", "/", "d">> }

\* the entries a bucket may hold, relative to its root, in sorted path order
Tree ==
    << [rel |-> <<"a">>, type |-> "file", content |-> <<10>>, mtime |-> 1],
       [rel |-> <<"b">>, type |-> "file", content |-> <<20, 21>>, mtime |-> 2],
       [rel |-> <<"s">>, type |-> "directory", content |-> <<>>, mtime |-> 3],
       [rel |-> <<"s", "/", "c">>, type |-> "file", content |-> <<30, 31, 32>>, mtime |-> 4],
       [rel |-> <<"s", "/", "d", "/", "e">>, type |-> "file", content |-> <<>>, mtime |-> 5] >>

\* the path under which the client reports the entries of a bucket
RootPath(bucket_url) ==
    IF StartsWith(bucket_url, <<"f", "i", "l", "e", ":", "/", "/", "/">>)
    THEN <<"/", "d">> ELSE <<"d">>

\* the client's entries of a bucket: path -> metadata, in sorted path order
Entries(bucket_url, present) ==
    LET e(i) == [path |-> RootPath(bucket_url) \o <<"/">> \o Tree[i].rel,
                 type |-> Tree[i].type,
                 size |-> Len(Tree[i].content),
                 mtime |-> Tree[i].mtime,
                 content |-> Tree[i].content]
        RECURSIVE from(_)
        from(i) == IF i > Len(Tree) THEN <<>>
                   ELSE (IF i \in present THEN <<e(i)>> ELSE <<>>) \o from(i + 1)
    IN from(1)

\* glob pattern -> tokens: "/**" , "**" with an optional "/", "*", a character
RECURSIVE GlobTokens(_)
GlobTokens(p) ==
    IF p = <<>> THEN <<>>
    ELSE IF StartsWith(p, <<"/", "*", "*">>) THEN <<"SLASH_DOUBLE_STARS">> \o GlobTokens(Drop(p, 3))
    ELSE IF StartsWith(p, <<"*", "*", "/">>) THEN <<"DOUBLE_STARS">> \o GlobTokens(Drop(p, 3))
    ELSE IF StartsWith(p, <<"*", "*">>) THEN <<"DOUBLE_STARS">> \o GlobTokens(Drop(p, 2))
    ELSE IF Head(p) = "*" THEN <<"STAR">> \o GlobTokens(Tail(p))
    ELSE <<Head(p)>> \o GlobTokens(Tail(p))

\* "*" is [^/]*, "**" is .*, "/**" is (|/.*), anything else is itself
RECURSIVE TokensMatch(_, _)
TokensMatch(t, s) ==
    IF t = <<>> THEN s = <<>>
    ELSE IF Head(t) = "STAR"
         THEN \/ TokensMatch(Tail(t), s)
              \/ s # <<>> /\ Head(s) # "/" /\ TokensMatch(t, Tail(s))
    ELSE IF Head(t) = "DOUBLE_STARS"
         THEN \/ TokensMatch(Tail(t), s)
              \/ s # <<>> /\ TokensMatch(t, Tail(s))
    ELSE IF Head(t) = "SLASH_DOUBLE_STARS"
         THEN \/ TokensMatch(Tail(t), s)
              \/ s # <<>> /\ Head(s) = "/"
                    /\ TokensMatch(<<"DOUBLE_STARS">> \o Tail(t), Tail(s))
    ELSE s # <<>> /\ Head(s) = Head(t) /\ TokensMatch(Tail(t), Tail(s))

\* fs_client.glob(pattern, detail=True): the matching entries, sorted by path
Glob(entries, pattern) ==
    SelectSeq(entries, LAMBDA e : TokensMatch(GlobTokens(pattern), e.path))

\* fs_client.read_bytes(url) / fs_client.open(url): the bytes stored at url
ClientRead(entries, url) ==
    LET hits == SelectSeq(entries, LAMBDA e :
                    e.type = "file" /\ UrlParse(url).netloc \o UrlParse(url).path = e.path)
    IN IF hits = <<>> THEN None ELSE Bytes(hits[1].content)

----------------------------------------------------------------------------
(* helpers.get_files                                                       *)

\* protocol = bucket_url_parsed.scheme or "file"
Protocol(bucket_url) ==
    IF UrlParse(bucket_url).scheme = <<>> THEN <<"f", "i", "l", "e">>
    ELSE UrlParse(bucket_url).scheme

\* bucket_url_str = posixpath.join(netloc, path.lstrip("/"))
BucketUrlStr(bucket_url) ==
    PosixJoin(UrlParse(bucket_url).netloc, LStrip(UrlParse(bucket_url).path, "/"))

\* filter_url, re-anchored at "/" for a file:/// url
FilterUrl(bucket_url, file_glob) ==
    LET filter_url == PosixJoin(BucketUrlStr(bucket_url), file_glob) IN
    IF StartsWith(bucket_url, <<"f", "i", "l", "e", ":", "/", "/", "/">>)
    THEN PosixJoin(<<"/">>, filter_url)
    ELSE filter_url

\* file_name = file.replace(bucket_url_str, "").lstrip("/")
FileName(bucket_url, file) ==
    LStrip(Replace(file, BucketUrlStr(bucket_url), <<>>), "/")

\* file_url = f"{protocol}://{file}"
FileUrl(bucket_url, file) ==
    Protocol(bucket_url) \o <<":", "/", "/">> \o file

\* mimetypes.guess_type(file)[0]: the names of Tree carry no extension
GuessType(file) == None

\* md["type"] != "file": continue
IsFile(md) == md.type = "file"

\* the FileItem get_files yields for one entry of glob_result
FileItem(bucket_url, e) ==
    [file_name |-> FileName(bucket_url, e.path),
     file_url |-> FileUrl(bucket_url, e.path),
     mime_type |-> GuessType(e.path),
     modification_date |-> e.mtime,
     file_content |-> None,
     size_in_bytes |-> e.size]

RECURSIVE MapFileItem(_, _)
MapFileItem(bucket_url, es) ==
    IF es = <<>> THEN <<>>
    ELSE <<FileItem(bucket_url, Head(es))>> \o MapFileItem(bucket_url, Tail(es))

\* the file_glob get_files uses when its caller passes none: "**/*"
GetFilesDefaultGlob == <<"*", "*", "/", "*">>

\* get_files(fs_client, bucket_url, file_glob): everything it yields, in order
GetFiles(entries, bucket_url, file_glob) ==
    MapFileItem(bucket_url,
                SelectSeq(Glob(entries, FilterUrl(bucket_url, file_glob)), IsFile))

----------------------------------------------------------------------------
(* FileSystemDict                                                          *)

\* FileSystemDict.__init__(mapping, credentials)
FileSystemDict(mapping, credentials) ==
    [items |-> mapping, credentials |-> credentials]

\* len(file_dict): the number of keys of the dictionary
DictLen(h) == Cardinality(DOMAIN h.items)

\* Python's `value in self`: a key of the dictionary equal to value.  The keys
\* are str, and neither None nor a bytes object is equal to a str.
Contains(h, value) == value.tag = "str" /\ value.data \in DOMAIN h.items

\* the test open() makes before it uses the extracted content
OpenUsesContent(h) == Contains(h, h.items.file_content)

\* the test read_bytes() makes before it uses the extracted content
ReadUsesContent(h) == "file_content" \in DOMAIN h.items

\* FileSystemDict.open(): how the call ends and the bytes the stream is over
Open(h, entries) ==
    IF "file_content" \notin DOMAIN h.items
    THEN [outcome |-> "KeyError", value |-> None]
    ELSE IF OpenUsesContent(h)
    THEN [outcome |-> "memory", value |-> h.items.file_content]
    ELSE IF Falsy(h.credentials)
    THEN [outcome |-> "ValueError", value |-> None]
    ELSE [outcome |-> "client", value |-> ClientRead(entries, h.items.file_url)]

\* FileSystemDict.read_bytes(): how the call ends and what it returns
ReadBytes(h, entries) ==
    IF ReadUsesContent(h)
    THEN [outcome |-> "memory", value |-> h.items.file_content]
    ELSE IF Falsy(h.credentials)
    THEN [outcome |-> "ValueError", value |-> None]
    ELSE [outcome |-> "client", value |-> ClientRead(entries, h.items.file_url)]

----------------------------------------------------------------------------
(* filesystem_resource                                                     *)

\* filename_filter: None (here the empty text, as falsy as None) or a glob
Filters == { <<>>, <<"*">>, <<"*", "*", "/", "*">> }

\* a default that would reach below the root
DefaultFilterRecursive == <<"*", "*", "/", "*">>

\* if not filename_filter: filename_filter = "*"
DefaultFilter == <<"*">>

FilenameFilter(filename_filter) ==
    IF filename_filter = <<>> THEN DefaultFilter ELSE filename_filter

\* if len(file_dict) >= chunksize
ChunkIsFull(file_dict, chunk, chunksize) == DictLen(file_dict) >= chunksize

\* a yield that forgets to start a new chunk
AfterYieldKeep(chunk) == chunk

\* files_chunk = [] after a yield
AfterYield(chunk) == <<>>

\* file_dict["file_content"] = file_dict.read_bytes() when extract_content
Extracted(h, entries, extract_content) ==
    IF extract_content
    THEN [h EXCEPT !.items.file_content = ReadBytes(h, entries).value]
    ELSE h

ArgsSet ==
    [bucket_url : BucketUrls,
     credentials : {None, Creds},
     filename_filter : Filters,
     chunksize : 1..MaxChunk,
     extract_content : BOOLEAN]

NoHandle == [tag |-> "none"]
NoResult == [op |-> "none"]

\* the variables a specification does not use stay as they are here
IdleFs ==
    /\ pc = "idle" /\ pending = <<>> /\ files_chunk = <<>> /\ yielded = <<>>
IdleHandle ==
    /\ handle = NoHandle /\ result = NoResult
IdleCsv ==
    /\ csv_items = <<>> /\ csv_chunksize = 1 /\ last_value = <<2023, 1, 1>>
    /\ start_value = <<2023, 1, 1>> /\ csv_pos = [file |-> 1, row |-> 0]
    /\ csv_out = <<>> /\ committed = 0
IdleJsonl ==
    /\ jl_items = <<>> /\ jl_chunksize = 1 /\ jl_pc = "idle" /\ jl_file = 1
    /\ jl_line = 0 /\ lines_chunk = <<>> /\ jl_out = <<>>

InitFs ==
    /\ args \in ArgsSet
    /\ fs \in SUBSET (1..Len(Tree))
    /\ pc = "start" /\ pending = <<>> /\ files_chunk = <<>> /\ yielded = <<>>
    /\ IdleHandle /\ IdleCsv /\ IdleJsonl

\* lines 111-118 and get_files up to its glob
Start ==
    /\ pc = "start"
    /\ pending' = Glob(Entries(args.bucket_url, fs),
                       FilterUrl(args.bucket_url, FilenameFilter(args.filename_filter)))
    /\ pc' = "loop"
    /\ UNCHANGED <<args, fs, files_chunk, yielded, handleVars, csvVars, jsonlVars>>

\* get_files passes over an entry that is no file
SkipEntry ==
    /\ pc = "loop" /\ pending # <<>> /\ ~IsFile(Head(pending))
    /\ pending' = Tail(pending)
    /\ UNCHANGED <<args, fs, pc, files_chunk, yielded, handleVars, csvVars, jsonlVars>>

\* one pass of the body of the for loop of filesystem_resource
ProcessFile ==
    /\ pc = "loop" /\ pending # <<>> /\ IsFile(Head(pending))
    /\ LET file_model == FileItem(args.bucket_url, Head(pending))
           entries == Entries(args.bucket_url, fs)
           raises == args.extract_content
                     /\ ReadBytes(FileSystemDict(file_model, args.credentials),
                                  entries).outcome = "ValueError"
           file_dict == Extracted(FileSystemDict(file_model, args.credentials),
                                  entries, args.extract_content)
           chunk == Append(files_chunk, file_dict)
       IN IF raises
          THEN /\ pc' = "failed"
               /\ UNCHANGED <<pending, files_chunk, yielded>>
          ELSE /\ pending' = Tail(pending)
               /\ pc' = pc
               /\ IF ChunkIsFull(file_dict, chunk, args.chunksize)
                  THEN /\ yielded' = Append(yielded, chunk)
                       /\ files_chunk' = AfterYield(chunk)
                  ELSE /\ yielded' = yielded
                       /\ files_chunk' = chunk
    /\ UNCHANGED <<args, fs, handleVars, csvVars, jsonlVars>>

\* the enumeration is exhausted: if files_chunk: yield files_chunk
Exhaust ==
    /\ pc = "loop" /\ pending = <<>>
    /\ yielded' = IF files_chunk # <<>> THEN Append(yielded, files_chunk) ELSE yielded
    /\ pc' = "done"
    /\ UNCHANGED <<args, fs, pending, files_chunk, handleVars, csvVars, jsonlVars>>

NextFs == Start \/ SkipEntry \/ ProcessFile \/ Exhaust

SpecFs == InitFs /\ [][NextFs]_vars

----------------------------------------------------------------------------
(* A consumer holding one FileSystemDict.                                  *)

\* the mappings a FileSystemDict is built from: a FileItem as get_files yields
\* it, the same with its content extracted, and one without the content key
Mappings(entries, item) ==
    { item,
      [item EXCEPT !.file_content = ClientRead(entries, item.file_url)],
      [k \in DOMAIN item \ {"file_content"} |-> item[k]] }

InitHandle ==
    /\ args \in {a \in ArgsSet : /\ a.credentials = None /\ a.filename_filter = <<>>
                                 /\ a.chunksize = 1 /\ ~a.extract_content}
    /\ fs \in SUBSET (1..Len(Tree))
    /\ IdleFs /\ IdleHandle /\ IdleCsv /\ IdleJsonl

\* FileSystemDict(mapping, credentials)
Construct ==
    /\ LET entries == Entries(args.bucket_url, fs)
           items == GetFiles(entries, args.bucket_url, GetFilesDefaultGlob)
       IN \E i \in 1..Len(items), credentials \in {None, Creds} :
            \E mapping \in Mappings(entries, items[i]) :
               handle' = FileSystemDict(mapping, credentials)
    /\ result' = NoResult
    /\ UNCHANGED <<fsVars, csvVars, jsonlVars>>

\* handle.open()
CallOpen ==
    /\ handle # NoHandle
    /\ result' = [op |-> "open", call |-> Open(handle, Entries(args.bucket_url, fs))]
    /\ UNCHANGED <<handle, fsVars, csvVars, jsonlVars>>

\* handle.read_bytes()
CallReadBytes ==
    /\ handle # NoHandle
    /\ result' = [op |-> "read_bytes",
                  call |-> ReadBytes(handle, Entries(args.bucket_url, fs))]
    /\ UNCHANGED <<handle, fsVars, csvVars, jsonlVars>>

NextHandle == Construct \/ CallOpen \/ CallReadBytes

SpecHandle == InitHandle /\ [][NextHandle]_vars

----------------------------------------------------------------------------
(* Properties of filesystem_resource and get_files.                        *)

RECURSIVE Flatten(_)
Flatten(batches) ==
    IF batches = <<>> THEN <<>> ELSE Head(batches) \o Flatten(Tail(batches))

CeilDiv(n, k) == (n + k - 1) \div k

\* what get_files hands to the resource in the current run
Enumerated ==
    GetFiles(Entries(args.bucket_url, fs), args.bucket_url,
             FilenameFilter(args.filename_filter))

\* what identifies the file of a handle, and the credentials it carries
Identity(h) ==
    <<h.items.file_url, h.items.file_name, h.items.size_in_bytes, h.credentials>>

IdentityOfItem(item) ==
    <<item.file_url, item.file_name, item.size_in_bytes, args.credentials>>

SameFiles(hs, items) ==
    /\ Len(hs) = Len(items)
    /\ \A i \in 1..Len(hs) : Identity(hs[i]) = IdentityOfItem(items[i])

\* C1: N enumerated files and chunk size K give ceil(N/K) batches, each of
\* size K except the last, which has size N mod K, or K when N mod K = 0;
\* nothing is yielded when N = 0.
C1_BatchesOfChunkSize ==
    pc = "done" =>
        LET N == Len(Enumerated)
            K == args.chunksize
        IN /\ Len(yielded) = CeilDiv(N, K)
           /\ \A i \in 1..Len(yielded) :
                Len(yielded[i]) = IF i < Len(yielded) \/ N % K = 0 THEN K ELSE N % K

\* C4: with extract_content every yielded handle holds the full bytes of its
\* file as the client reads them, never None; without it file_content stays
\* None.
C4_ExtractContentStoresBytes ==
    \A b \in 1..Len(yielded) : \A i \in 1..Len(yielded[b]) :
        LET h == yielded[b][i] IN
        IF args.extract_content
        THEN /\ h.items.file_content # None
             /\ h.items.file_content =
                    ClientRead(Entries(args.bucket_url, fs), h.items.file_url)
        ELSE h.items.file_content = None

\* C5: the batches yielded so far, followed by the chunk being filled, are a
\* prefix of what get_files produces, and once the resource is exhausted the
\* concatenation of the batches is exactly that sequence: nothing dropped,
\* duplicated or reordered, each handle carrying the resource's credentials.
C5_BatchesConcatenateToEnumeration ==
    /\ pc = "loop" =>
          LET seen == Flatten(yielded) \o files_chunk IN
          /\ Len(seen) <= Len(Enumerated)
          /\ SameFiles(seen, Take(Enumerated, Len(seen)))
    /\ pc = "done" => SameFiles(Flatten(yielded), Enumerated)

\* a finished run that yielded three batches or more
C5_Witness ==
    pc = "done" /\ Len(yielded) >= 3 /\ Len(Flatten(yielded)) = Len(Enumerated)

\* the entries of the bucket that are files, at any depth below the root
AllFiles == SelectSeq(Entries(args.bucket_url, fs), IsFile)

\* an entry directly under the root: no separator after the root prefix
DirectlyUnderRoot(e) ==
    Find(Drop(e.path, Len(RootPath(args.bucket_url)) + 1), <<"/">>, 1) = 0

YieldedUrls == {Flatten(yielded)[i].items.file_url : i \in 1..Len(Flatten(yielded))}

\* C9 as stated: without a filename filter every file under the root, nested
\* ones included, is enumerated.
C9_DefaultGlobIsRecursive ==
    (pc = "done" /\ args.filename_filter = <<>>) =>
        \A i \in 1..Len(AllFiles) :
            FileUrl(args.bucket_url, AllFiles[i].path) \in YieldedUrls

\* C9 amended: without a filename filter the pattern is "*", and exactly the
\* files directly under the root are enumerated; files in subdirectories are
\* not.
C9_DefaultGlobIsTopLevel ==
    (pc = "done" /\ args.filename_filter = <<>>) =>
        \A i \in 1..Len(AllFiles) :
            FileUrl(args.bucket_url, AllFiles[i].path) \in YieldedUrls
                <=> DirectlyUnderRoot(AllFiles[i])

\* a finished run without filter over a bucket with a nested file and a file
\* directly under the root
C9_Witness ==
    /\ pc = "done" /\ args.filename_filter = <<>>
    /\ yielded # <<>>
    /\ \E i \in 1..Len(AllFiles) : ~DirectlyUnderRoot(AllFiles[i])

\* url with the protocol and the leading root prefix stripped, then the
\* leading separators
NameFromUrl(url) ==
    LET file == UrlParse(url).netloc \o UrlParse(url).path
        root == RootPath(args.bucket_url)
    IN LStrip(IF StartsWith(file, root) THEN Drop(file, Len(root)) ELSE file, "/")

\* C10: every yielded item comes from an entry of type "file", its file_name
\* is its file_url with the protocol and only the leading root prefix
\* stripped, and its size_in_bytes is the size in the glob metadata.
C10_NameIsUrlWithoutRoot ==
    \A b \in 1..Len(yielded) : \A i \in 1..Len(yielded[b]) :
        LET h == yielded[b][i] IN
        /\ h.items.file_name = NameFromUrl(h.items.file_url)
        /\ \E j \in 1..Len(AllFiles) :
              /\ FileUrl(args.bucket_url, AllFiles[j].path) = h.items.file_url
              /\ AllFiles[j].size = h.items.size_in_bytes

----------------------------------------------------------------------------
(* Properties of FileSystemDict.                                           *)

HasBytes(h) ==
    /\ "file_content" \in DOMAIN h.items
    /\ h.items.file_content.tag = "bytes"

HasNoContent(h) ==
    /\ "file_content" \in DOMAIN h.items
    /\ h.items.file_content = None

\* C2: on a handle whose file_content holds bytes, open() and read_bytes()
\* never go to the filesystem client and never raise, with or without
\* credentials: both serve the cached bytes.
C2_CachedContentIsServed ==
    (handle # NoHandle /\ result # NoResult /\ HasBytes(handle)) =>
        /\ result.call.outcome = "memory"
        /\ result.call.value = handle.items.file_content

\* C3: on a handle whose file_content is None, open() and read_bytes() raise
\* the missing-credentials error exactly when the credentials are absent, and
\* go through the filesystem client when they are present.
C3_NoContentNeedsCredentials ==
    (handle # NoHandle /\ result # NoResult /\ HasNoContent(handle)) =>
        /\ result.call.outcome = "ValueError" <=> Falsy(handle.credentials)
        /\ ~Falsy(handle.credentials) => result.call.outcome = "client"

----------------------------------------------------------------------------
(* extract_met_csv                                                         *)

\* the values of the "date" column: 2023-01-01, 2023-06-01 and 2024-01-01
Dates == { <<2023, 1, 1>>, <<2023, 6, 1>>, <<2024, 1, 1>> }

\* initial_value="2023-01-01"
InitialValue == <<2023, 1, 1>>

\* ensure_pendulum_datetime(value): a year-month-day value as a point in
\* time (midnight UTC), counted in days with months of 31 days
EnsurePendulumDatetime(value) ==
    ((value[1] * 12) + (value[2] - 1)) * 31 + (value[3] - 1)

\* a filter that also keeps the rows equal to the mark
KeepRowInclusive(date, mark) ==
    EnsurePendulumDatetime(date) >= EnsurePendulumDatetime(mark)

\* df["date"] > last_value
KeepRow(date, mark) ==
    EnsurePendulumDatetime(date) > EnsurePendulumDatetime(mark)

\* a mark kept from the start of the run
MarkAtStart(current, start) == start

\* last_value = ensure_pendulum_datetime(incremental.last_value), inside the
\* loop over the chunks: the value the incremental holds at that moment
MarkForChunk(current, start) == current

\* df = df[df["date"] > last_value]; df.to_dict(orient="records")
FilterChunk(df, mark) == SelectSeq(df, LAMBDA row : KeepRow(row.date, mark))

\* the rows of a data file, numbered by "code" through the input batch
RowsOf(dates, from, to) ==
    [i \in 1..(to - from + 1) |-> [code |-> from + i - 1, date |-> dates[from + i - 1]]]

\* the input batches: up to MaxRows rows in one file or cut into two files,
\* every data file holding at least one row
CsvItems ==
    { <<>> } \cup
    UNION { UNION { { <<RowsOf(dates, 1, n)>> } \cup
                    { <<RowsOf(dates, 1, c), RowsOf(dates, c + 1, n)>> : c \in 1..(n - 1) }
                    : dates \in [1..n -> Dates] }
            : n \in 1..MaxRows }

InitCsv ==
    /\ csv_items \in CsvItems
    /\ csv_chunksize \in 1..MaxCsvChunk
    /\ last_value \in Dates
    /\ start_value = last_value
    /\ csv_pos = [file |-> 1, row |-> 0]
    /\ csv_out = <<>>
    /\ committed = 0
    /\ args \in {a \in ArgsSet : /\ a.credentials = None /\ a.filename_filter = <<>>
                                 /\ a.chunksize = 1 /\ ~a.extract_content
                                 /\ a.bucket_url = <<"s", "3", ":", "/", "/", "d">>}
    /\ fs = {}
    /\ IdleFs /\ IdleHandle /\ IdleJsonl

\* one pass of the inner loop: the next chunk of the current file is read,
\* incremental.last_value is read, the chunk is filtered and yielded
CsvChunk ==
    /\ csv_pos.file <= Len(csv_items)
    /\ LET rows == csv_items[csv_pos.file]
           last == Min(csv_pos.row + csv_chunksize, Len(rows))
           df == SubSeq(rows, csv_pos.row + 1, last)
           mark == MarkForChunk(last_value, start_value)
       IN /\ csv_out' = Append(csv_out, [file |-> csv_pos.file, chunk |-> df,
                                          mark |-> mark,
                                          rows |-> FilterChunk(df, mark)])
          /\ csv_pos' = IF last = Len(rows)
                        THEN [file |-> csv_pos.file + 1, row |-> 0]
                        ELSE [file |-> csv_pos.file, row |-> last]
    /\ UNCHANGED <<csv_items, csv_chunksize, last_value, start_value, committed,
                   fsVars, handleVars, jsonlVars>>

RECURSIVE MaxDate(_, _)
MaxDate(rows, mark) ==
    IF rows = <<>> THEN mark
    ELSE MaxDate(Tail(rows),
                 IF KeepRow(Head(rows).date, mark) THEN Head(rows).date ELSE mark)

\* the pipeline commits the next yielded record batch and advances the mark
\* to the greatest "date" it has loaded
CommitBatch ==
    /\ committed < Len(csv_out)
    /\ committed' = committed + 1
    /\ last_value' = MaxDate(csv_out[committed + 1].rows, last_value)
    /\ UNCHANGED <<csv_items, csv_chunksize, start_value, csv_pos, csv_out,
                   fsVars, handleVars, jsonlVars>>

NextCsv == CsvChunk \/ CommitBatch

SpecCsv == InitCsv /\ [][NextCsv]_vars

DatesOf(rows) == [i \in 1..Len(rows) |-> rows[i].date]

\* C6: of every chunk exactly the rows whose date is strictly greater than
\* the high-water mark survive (rows equal to the mark are dropped), in
\* their original order.
C6_RowsBeyondMarkSurvive ==
    \A b \in 1..Len(csv_out) :
        LET df == csv_out[b].chunk
            kept == csv_out[b].rows
            m == csv_out[b].mark
        IN /\ \A i \in 1..Len(kept) :
                /\ EnsurePendulumDatetime(kept[i].date) > EnsurePendulumDatetime(m)
                /\ \E j \in 1..Len(df) : df[j] = kept[i]
           /\ \A j \in 1..Len(df) :
                EnsurePendulumDatetime(df[j].date) > EnsurePendulumDatetime(m)
                    => \E i \in 1..Len(kept) : kept[i] = df[j]
           /\ \A i, j \in 1..Len(kept) : i < j => kept[i].code < kept[j].code

\* rows 2023-01-01, 2023-06-01, 2024-01-01 against the mark 2023-01-01 leave
\* 2023-06-01 and 2024-01-01
C6_Witness ==
    \E b \in 1..Len(csv_out) :
        /\ DatesOf(csv_out[b].chunk) = << <<2023, 1, 1>>, <<2023, 6, 1>>, <<2024, 1, 1>> >>
        /\ csv_out[b].mark = InitialValue
        /\ DatesOf(csv_out[b].rows) = << <<2023, 6, 1>>, <<2024, 1, 1>> >>

BeyondMark(df, mark) ==
    SelectSeq(df, LAMBDA row :
        EnsurePendulumDatetime(row.date) > EnsurePendulumDatetime(mark))

----------------------------------------------------------------------------
(* read_jsonl                                                              *)

\* json.loads(line): line n of file f holds the object {"file": f, "n": n}
JsonLoads(line) == [file |-> line[1], n |-> line[2]]

\* the text of a file of count lines
LinesOf(f, count) == [n \in 1..count |-> <<f, n>>]

\* the input batches: no file, one file or two, of 0..MaxLines lines each
JsonlItems ==
    { <<>> } \cup { <<LinesOf(1, a)>> : a \in 0..MaxLines }
             \cup { <<LinesOf(1, a), LinesOf(2, b)>> : a \in 0..MaxLines, b \in 0..MaxLines }

InitJsonl ==
    /\ jl_items \in JsonlItems
    /\ jl_chunksize \in 1..MaxJsonChunk
    /\ jl_pc = "next" /\ jl_file = 1 /\ jl_line = 0
    /\ lines_chunk = <<>> /\ jl_out = <<>>
    /\ args \in {a \in ArgsSet : /\ a.credentials = None /\ a.filename_filter = <<>>
                                 /\ a.chunksize = 1 /\ ~a.extract_content
                                 /\ a.bucket_url = <<"s", "3", ":", "/", "/", "d">>}
    /\ fs = {}
    /\ IdleFs /\ IdleHandle /\ IdleCsv

\* a chunk that keeps what the file before left in it
CarriedChunk(chunk) == chunk

\* lines_chunk = [] when a file is opened
FreshChunk(chunk) == <<>>

\* if len(lines_chunk) >= chunksize
LinesChunkIsFull(chunk, chunksize) == Len(chunk) >= chunksize

\* for file_obj in items: with file_obj.open() as f: lines_chunk = []
JlOpen ==
    /\ jl_pc = "next" /\ jl_file <= Len(jl_items)
    /\ lines_chunk' = FreshChunk(lines_chunk)
    /\ jl_line' = 0
    /\ jl_pc' = "read"
    /\ UNCHANGED <<jl_items, jl_chunksize, jl_file, jl_out, fsVars, handleVars, csvVars>>

\* one pass of for line in f
JlReadLine ==
    /\ jl_pc = "read" /\ jl_line < Len(jl_items[jl_file])
    /\ jl_line' = jl_line + 1
    /\ LET chunk == Append(lines_chunk, JsonLoads(jl_items[jl_file][jl_line + 1])) IN
       IF LinesChunkIsFull(chunk, jl_chunksize)
       THEN /\ jl_out' = Append(jl_out, [file |-> jl_file, batch |-> chunk])
            /\ lines_chunk' = <<>>
       ELSE /\ jl_out' = jl_out
            /\ lines_chunk' = chunk
    /\ UNCHANGED <<jl_items, jl_chunksize, jl_pc, jl_file, fsVars, handleVars, csvVars>>

\* the file is read to its end: if lines_chunk: yield lines_chunk
JlEndFile ==
    /\ jl_pc = "read" /\ jl_line = Len(jl_items[jl_file])
    /\ jl_out' = IF lines_chunk # <<>>
                 THEN Append(jl_out, [file |-> jl_file, batch |-> lines_chunk])
                 ELSE jl_out
    /\ jl_file' = jl_file + 1
    /\ jl_pc' = "next"
    /\ UNCHANGED <<jl_items, jl_chunksize, jl_line, lines_chunk, fsVars, handleVars, csvVars>>

\* items is exhausted
JlDone ==
    /\ jl_pc = "next" /\ jl_file > Len(jl_items)
    /\ jl_pc' = "done"
    /\ UNCHANGED <<jl_items, jl_chunksize, jl_file, jl_line, lines_chunk, jl_out,
                   fsVars, handleVars, csvVars>>

NextJsonl == JlOpen \/ JlReadLine \/ JlEndFile \/ JlDone

SpecJsonl == InitJsonl /\ [][NextJsonl]_vars

\* the record batches yielded for file f, in yield order
BatchesOf(f) ==
    LET of == SelectSeq(jl_out, LAMBDA r : r.file = f)
    IN [i \in 1..Len(of) |-> of[i].batch]

RECURSIVE MapJsonLoads(_)
MapJsonLoads(lines) ==
    IF lines = <<>> THEN <<>> ELSE <<JsonLoads(Head(lines))>> \o MapJsonLoads(Tail(lines))

\* C8: a file of L lines read with chunk size K gives ceil(L/K) record
\* batches, in line order, each of size K except a last one of size L mod K
\* when L mod K > 0; no batch is empty, and the partial batch of a file is
\* yielded at the end of that file, never carried into or repeated for the
\* next one.
C8_JsonlBatchesPerFile ==
    /\ \A i \in 1..Len(jl_out) : jl_out[i].batch # <<>>
    /\ \A i, j \in 1..Len(jl_out) : i < j => jl_out[i].file <= jl_out[j].file
    /\ \A f \in 1..Len(jl_items) :
         (f < jl_file) =>
            LET L == Len(jl_items[f])
                K == jl_chunksize
                bs == BatchesOf(f)
            IN /\ Len(bs) = CeilDiv(L, K)
               /\ \A i \in 1..Len(bs) :
                    Len(bs[i]) = IF i < Len(bs) \/ L % K = 0 THEN K ELSE L % K
               /\ Flatten(bs) = MapJsonLoads(jl_items[f])

\* two files read to the end with chunk size 10, the first of 25 lines: its
\* batches have the sizes 10, 10 and 5
C8_Witness ==
    /\ jl_pc = "done" /\ Len(jl_items) = 2 /\ jl_chunksize = 10
    /\ Len(jl_items[1]) = 25
    /\ [i \in 1..Len(BatchesOf(1)) |-> Len(BatchesOf(1)[i])] = <<10, 10, 5>>
    /\ BatchesOf(2) # <<>>

====
